---- MODULE Spec2Model ----
\* A model of src/tools/task_monitor_tool.py: the two tool functions
\* task_monitor and task_log_reader over the files
\*     <root>/assets/task_data.json   (the task store)
\*     <root>/logs/<task_id>.log      (one log file per task id)
\*
\* Conventions of the model
\*   * An optional Python value (None or a value) is a sequence of length
\*     at most one: << >> is None, << v >> is the value v.
\*   * A file is << >> when it does not exist and << content >> when it does.
\*   * A text is a sequence of characters.  The character "\n" is the line
\*     terminator; every other string stands for one run of characters that
\*     holds no line terminator (the log lines of the source, in ASCII).
\*   * Chinese string literals of the source are rendered by ASCII words.
\*   * The value a call returns is a record with a field kind:
\*       "json"       a JSON envelope (the other fields are the JSON keys),
\*       "str"        a bare string,
\*       "exception"  the call raised instead of returning.
EXTENDS Integers, Sequences, FiniteSets, TLC

VARIABLES
    fs,            \* the filesystem: directories, the store file, the log files
    lastCall,      \* the last completed call: its operation, arguments, result
    repeated,      \* TRUE iff the last call repeated the call before it
    storeWrites,   \* how many times the store file has been written (saturating)
    lr,            \* the step-wise task_log_reader call (specification SpecLogRace)
    perms,         \* which log files are readable (specification SpecLogRace)
    br,            \* the two step-wise task_monitor calls (specification SpecBootRace)
    storeBytes     \* the store file as written chunk by chunk (SpecBootRace)

vars == <<fs, lastCall, repeated, storeWrites, lr, perms, br, storeBytes>>

-----------------------------------------------------------------------------
\* Bounds of the model

MaxTasks == 3        \* longest non-sample task store drawn in Init
MaxLinesArg == 3     \* the `lines` arguments -1 .. MaxLinesArg are tried
MaxTextLen == 3      \* longest log text drawn in Init besides the transcripts
MaxWrites == 3       \* the store-write counter saturates here
NChunks == 2         \* write() calls one dump of the sample store is split into

DefaultLines == 100  \* task_log_reader(task_id, lines=100)

None == << >>
Some(v) == << v >>
Min(a, b) == IF a < b THEN a ELSE b
Max(a, b) == IF a > b THEN a ELSE b

\* Python truthiness of an optional string: None and "" are falsy.
Truthy(opt) == opt # None /\ opt[1] # ""

-----------------------------------------------------------------------------
\* The sample dataset, lines 30-77

Task(id, name, status, start, end, duration, count, err) ==
    [task_id |-> id, task_name |-> name, status |-> status,
     start_time |-> start, end_time |-> end, duration |-> duration,
     data_count |-> count, log_path |-> <<"logs/", id, ".log">>,
     error_msg |-> err]

sample_tasks ==
    << Task("task_001", "user data sync", "success",
            Some("2025-06-17 08:00:00"), Some("2025-06-17 08:15:30"),
            Some(930), Some(1500000), None),
       Task("task_002", "order data cleaning", "failed",
            Some("2025-06-17 08:30:00"), Some("2025-06-17 08:45:20"),
            Some(920), Some(850000),
            Some("NullPointerException at DataProcessor.clean()")),
       Task("task_003", "sales report generation", "running",
            Some("2025-06-17 09:00:00"), None, None, None, None),
       Task("task_004", "product stock check", "pending",
            None, None, None, None, None) >>

\* A parsed JSON object with at most the key "tasks".
sample_data == [keys |-> {"tasks"}, tasks |-> sample_tasks]

\* json.dump(obj, f, indent=2, ensure_ascii=False): the file content is the
\* serialisation of obj.  json.load(f) parses a content: a well-formed one
\* gives back the object, anything else raises JSONDecodeError.
JsonDump(obj) == [wellformed |-> TRUE, obj |-> obj]
JsonLoadOk(content) == content.wellformed
JsonLoad(content) == content.obj

\* data.get("tasks", [])
GetTasks(data) == IF "tasks" \in data.keys THEN data.tasks ELSE << >>

-----------------------------------------------------------------------------
\* The queries of task_monitor, lines 87-124

Raise(type) == [kind |-> "exception", type |-> type]

RECURSIVE FirstMatch(_, _, _)
FirstMatch(tasks, id, i) ==
    IF i > Len(tasks) THEN 0
    ELSE IF tasks[i].task_id = id THEN i
    ELSE FirstMatch(tasks, id, i + 1)

RECURSIVE LastMatch(_, _, _)
LastMatch(tasks, id, i) ==
    IF i < 1 THEN 0
    ELSE IF tasks[i].task_id = id THEN i
    ELSE LastMatch(tasks, id, i - 1)

\* mutant of FindTask: the scan keeps going and ends on the last match
FindTaskLast(tasks, id) == LastMatch(tasks, id, Len(tasks))

\* for task in tasks: if task["task_id"] == task_id: return ...   (0: no match)
FindTask(tasks, id) == FirstMatch(tasks, id, 1)

QueryById(tasks, id) ==
    LET i == FindTask(tasks, id) IN
    IF i # 0
    THEN [kind |-> "json", success |-> TRUE, task |-> tasks[i],
          message |-> <<"got task", id>>]
    ELSE [kind |-> "json", success |-> FALSE,
          message |-> <<"no task with id", id>>]

\* the ASCII upper-case form of the status words of the model
Upper(s) ==
    CASE s = "success" -> "SUCCESS"
      [] s = "failed"  -> "FAILED"
      [] s = "running" -> "RUNNING"
      [] s = "pending" -> "PENDING"
      [] OTHER -> s

\* mutant of StatusEq: the comparison ignores letter case
StatusEqNoCase(a, b) == Upper(a) = Upper(b)

\* t["status"] == status
StatusEq(a, b) == a = b

RECURSIVE Filter(_, _)
Filter(tasks, status) ==
    IF tasks = << >> THEN << >>
    ELSE IF StatusEq(Head(tasks).status, status)
         THEN <<Head(tasks)>> \o Filter(Tail(tasks), status)
         ELSE Filter(Tail(tasks), status)

\* mutant of FilterSuccess: an empty selection is reported as a failure
FilterSuccessNonEmpty(filtered) == filtered # << >>

\* "success": True of the status branch, line 105
FilterSuccess(filtered) == TRUE

QueryByStatus(tasks, status) ==
    LET filtered_tasks == Filter(tasks, status) IN
    [kind |-> "json", success |-> FilterSuccess(filtered_tasks),
     tasks |-> filtered_tasks, count |-> Len(filtered_tasks),
     message |-> <<"filtered", Len(filtered_tasks), status>>]

\* mutant of CountStatus: the count of the whole list
CountAll(tasks, status) == Len(tasks)

\* len([t for t in tasks if t["status"] == status])
CountStatus(tasks, status) == Len(Filter(tasks, status))

QueryAll(tasks) ==
    [kind |-> "json", success |-> TRUE, tasks |-> tasks, count |-> Len(tasks),
     summary |-> [total   |-> Len(tasks),
                  success |-> CountStatus(tasks, "success"),
                  failed  |-> CountStatus(tasks, "failed"),
                  running |-> CountStatus(tasks, "running"),
                  pending |-> CountStatus(tasks, "pending")],
     message |-> <<"all tasks", Len(tasks)>>]

\* lines 87-124: the branch taken on (task_id, status)
Query(tasks, task_id, status) ==
    IF Truthy(task_id) THEN QueryById(tasks, task_id[1])
    ELSE IF Truthy(status) THEN QueryByStatus(tasks, status[1])
    ELSE QueryAll(tasks)

-----------------------------------------------------------------------------
\* The log transcripts, lines 149-179

RECURSIVE TextOf(_)
\* the text of a triple-quoted literal: every line followed by "\n"
TextOf(lineSeq) ==
    IF lineSeq = << >> THEN << >>
    ELSE <<Head(lineSeq), "\n">> \o TextOf(Tail(lineSeq))

SampleIds == {"task_001", "task_002", "task_003"}

sample_logs == [id \in SampleIds |->
    CASE id = "task_001" -> TextOf(<<
           "[2025-06-17 08:00:00] INFO  Task started: task_001 (user data sync)",
           "[2025-06-17 08:00:05] INFO  Connecting to database...",
           "[2025-06-17 08:00:10] INFO  Database connected successfully",
           "[2025-06-17 08:00:15] INFO  Starting data extraction...",
           "[2025-06-17 08:05:00] INFO  Extracted 500000 records",
           "[2025-06-17 08:10:00] INFO  Extracted 1000000 records",
           "[2025-06-17 08:12:00] INFO  Data transformation started",
           "[2025-06-17 08:14:00] INFO  Transformation completed",
           "[2025-06-17 08:15:00] INFO  Loading data to target system...",
           "[2025-06-17 08:15:30] INFO  Task completed successfully. Total records: 1500000">>)
      [] id = "task_002" -> TextOf(<<
           "[2025-06-17 08:30:00] INFO  Task started: task_002 (order data cleaning)",
           "[2025-06-17 08:30:05] INFO  Initializing DataProcessor...",
           "[2025-06-17 08:30:10] INFO  Loading order data...",
           "[2025-06-17 08:35:00] INFO  Data loaded: 850000 records",
           "[2025-06-17 08:35:10] INFO  Starting data cleaning...",
           "[2025-06-17 08:40:00] INFO  Cleaning step 1/3 completed",
           "[2025-06-17 08:42:00] ERROR Exception occurred: NullPointerException",
           "[2025-06-17 08:42:00] ERROR   at DataProcessor.clean(DataProcessor.java:245)",
           "[2025-06-17 08:42:00] ERROR   at DataProcessor.run(DataProcessor.java:120)",
           "[2025-06-17 08:42:00] ERROR Task failed due to exception",
           "[2025-06-17 08:45:20] INFO  Task terminated">>)
      [] id = "task_003" -> TextOf(<<
           "[2025-06-17 09:00:00] INFO  Task started: task_003 (sales report generation)",
           "[2025-06-17 09:00:05] INFO  Querying sales data from database...",
           "[2025-06-17 09:05:00] INFO  Processing sales data...",
           "[2025-06-17 09:10:00] INFO  Generating report charts...",
           "[2025-06-17 09:12:00] INFO  Task is still running...">>)]

-----------------------------------------------------------------------------
\* Reading and tailing a log, lines 188-207

RECURSIVE LineEnd(_, _)
\* the index of the character that ends the line starting at i
LineEnd(text, i) ==
    IF i >= Len(text) \/ text[i] = "\n" THEN i ELSE LineEnd(text, i + 1)

RECURSIVE ReadLines(_)
\* f.readlines(): the lines of the text, each keeping its terminator
ReadLines(text) ==
    IF text = << >> THEN << >>
    ELSE LET k == LineEnd(text, 1) IN
         <<SubSeq(text, 1, k)>> \o ReadLines(SubSeq(text, k + 1, Len(text)))

RECURSIVE Join(_)
\* "".join(lines)
Join(lineSeq) ==
    IF lineSeq = << >> THEN << >> ELSE Head(lineSeq) \o Join(Tail(lineSeq))

\* seq[start:] of Python: a negative start counts from the end and is
\* clamped at 0, a non-negative one is clamped at len(seq)
SliceFrom(seq, start) ==
    LET n == Len(seq)
        s == IF start < 0 THEN Max(n + start, 0) ELSE Min(start, n)
    IN SubSeq(seq, s + 1, n)

\* all_lines[-lines:] if lines < len(all_lines) else all_lines
TailLines(all_lines, lines) ==
    IF lines < Len(all_lines) THEN SliceFrom(all_lines, 0 - lines) ELSE all_lines

\* the success envelope, lines 195-201
LogResult(task_id, last_lines) ==
    [kind |-> "json", success |-> TRUE, task_id |-> task_id,
     log_lines |-> Len(last_lines), log_content |-> Join(last_lines),
     message |-> <<"read log", task_id, Len(last_lines)>>]

\* mutant of ReadFailed: the handler re-raises
ReadFailedRaise(e) == Raise(e)

\* except Exception as e: the failure envelope, lines 203-207
ReadFailed(e) ==
    [kind |-> "json", success |-> FALSE, message |-> <<"log read failed", e>>]

\* mutant of LogNotFound: the not-found answer as a JSON envelope
LogNotFoundJson(task_id) ==
    [kind |-> "json", success |-> FALSE,
     message |-> <<"error: no log file for task", task_id>>]

\* the bare string of line 185
LogNotFound(task_id) ==
    [kind |-> "str", text |-> <<"error: no log file for task", task_id>>]

-----------------------------------------------------------------------------
\* The filesystem

\* mutant of PathExists: the existence test always answers no
PathExistsNever(file) == FALSE

\* os.path.exists(path)
PathExists(file) == file # << >>

LogIds == SampleIds \cup {"task_009"}

\* mutant of BootstrapLog: the file is opened for writing before the id is
\* looked up, so an unknown id leaves an empty file behind
BootstrapLogTouch(logs, task_id) ==
    IF task_id \in DOMAIN sample_logs
    THEN [logs EXCEPT ![task_id] = Some(sample_logs[task_id])]
    ELSE [logs EXCEPT ![task_id] = Some(<< >>)]

\* lines 181-185: what the absent-file branch does to the log files
BootstrapLog(logs, task_id) ==
    IF task_id \in DOMAIN sample_logs
    THEN [logs EXCEPT ![task_id] = Some(sample_logs[task_id])]
    ELSE logs

\* lines 28-79: os.makedirs(..., exist_ok=True) and the dump of sample_data
BootstrapStore(f) ==
    [f EXCEPT !.assets_dir = TRUE, !.store = Some(JsonDump(sample_data))]

\* the try block of lines 188-201 on one log file: opening an absent file
\* raises FileNotFoundError, opening an unreadable one PermissionError
ReadLog(file, readable, task_id, lines) ==
    IF file = << >> THEN ReadFailed("FileNotFoundError")
    ELSE IF ~readable THEN ReadFailed("PermissionError")
    ELSE LogResult(task_id, TailLines(ReadLines(file[1]), lines))

\* lines 82-124 on the store file as it stands after the bootstrap
LoadAndQuery(file, task_id, status) ==
    IF ~JsonLoadOk(file[1]) THEN Raise("JSONDecodeError")
    ELSE Query(GetTasks(JsonLoad(file[1])), task_id, status)

-----------------------------------------------------------------------------
\* The inputs drawn by the model

\* records a store may hold besides the sample ones: a second record with
\* the id task_001, and a record whose status differs from "failed" by case
ExtraTasks ==
    { Task("task_001", "rerun of user data sync", "failed",
           Some("2025-06-18 08:00:00"), Some("2025-06-18 08:00:09"),
           Some(9), Some(0), Some("connection refused")),
      Task("task_005", "archive", "FAILED",
           Some("2025-06-18 09:00:00"), Some("2025-06-18 09:00:01"),
           Some(1), Some(0), Some("disk full")) }

TaskPool == {sample_tasks[i] : i \in 1..Len(sample_tasks)} \cup ExtraTasks

TaskLists ==
    UNION {[1..n -> TaskPool] : n \in 0..MaxTasks} \cup {sample_tasks}

EmptyObject == [keys |-> {}, tasks |-> << >>]

\* what the store file may hold: an object with a task list, an object
\* without the key "tasks", or text that is no JSON
StoreContents ==
    {JsonDump([keys |-> {"tasks"}, tasks |-> l]) : l \in TaskLists}
    \cup {JsonDump(EmptyObject)}
    \cup {[wellformed |-> FALSE, obj |-> EmptyObject]}

TaskIdArgs == {None, Some(""), Some("task_001"), Some("task_009")}
StatusArgs == {None, Some(""), Some("failed"), Some("FAILED"), Some("cancelled")}

\* the `lines` arguments: the small ones, the length of every transcript and
\* one more than it, and the default
TranscriptLens == {Len(ReadLines(sample_logs[id])) : id \in SampleIds}
LinesArgs ==
    (-1 .. MaxLinesArg) \cup TranscriptLens \cup {n + 1 : n \in TranscriptLens}
    \cup {DefaultLines}

\* log texts other than the transcripts: every text of at most MaxTextLen
\* characters over one letter and the line terminator
Chars == {"a", "\n"}
SmallTexts == UNION {[1..n -> Chars] : n \in 0..MaxTextLen}

NoLogs == [id \in LogIds |-> None]
AllReadable == [id \in LogIds |-> TRUE]

Fs(store, logs) ==
    [assets_dir |-> store # None, logs_dir |-> logs # NoLogs,
     store |-> store, logs |-> logs]

\* SpecMonitor: every store content, no log file
MonitorFs == {Fs(Some(c), NoLogs) : c \in StoreContents} \cup {Fs(None, NoLogs)}

\* SpecReader: no store; one log file that holds a small text (under a sample
\* id or an unknown one) or a transcript, or no log file at all
ReaderFs ==
    {Fs(None, NoLogs)}
    \cup {Fs(None, [NoLogs EXCEPT ![id] = Some(t)]) :
             id \in {"task_001", "task_009"}, t \in SmallTexts}
    \cup {Fs(None, [NoLogs EXCEPT ![id] = Some(sample_logs[id])]) : id \in SampleIds}

\* Spec: a few stores and a few log directories, in every combination
FewStores ==
    {None,
     Some(JsonDump(sample_data)),
     Some(JsonDump([keys |-> {"tasks"}, tasks |-> <<sample_tasks[2]>>])),
     Some(JsonDump(EmptyObject)),
     Some([wellformed |-> FALSE, obj |-> EmptyObject])}
FewLogs ==
    {NoLogs,
     [NoLogs EXCEPT !["task_001"] = Some(<<"a", "\n", "a">>)],
     [NoLogs EXCEPT !["task_009"] = Some(<<"a", "\n">>)]}
FewFs == {Fs(s, l) : s \in FewStores, l \in FewLogs}
FewLines == {0, 1, DefaultLines}

NoCall == [op |-> "none", args |-> << >>, result |-> [kind |-> "none"]]
LrIdle == [pc |-> "idle", task_id |-> "", lines |-> 0, exists |-> FALSE,
           error |-> "", result |-> [kind |-> "none"]]
BrIdle == [p \in {1, 2} |->
              [pc |-> "idle", task_id |-> None, status |-> None, off |-> 0,
               wrote |-> FALSE, result |-> [kind |-> "none"]]]

-----------------------------------------------------------------------------
\* Specifications Spec, SpecMonitor, SpecReader: calls run one after another
\* (the tool is single-threaded and synchronous), so a call is one step.

InitWith(fsSet) ==
    /\ fs \in fsSet
    /\ lastCall = NoCall
    /\ repeated = FALSE
    /\ storeWrites = 0
    /\ lr = LrIdle
    /\ perms = AllReadable
    /\ br = BrIdle
    /\ storeBytes = None

\* task_monitor(task_id, status), lines 13-124
TaskMonitor(task_id, status) ==
    LET exists == PathExists(fs.store)
        fs1 == IF exists THEN fs ELSE BootstrapStore(fs)
    IN /\ fs' = fs1
       /\ storeWrites' = IF exists THEN storeWrites
                         ELSE Min(storeWrites + 1, MaxWrites)
       /\ lastCall' = [op |-> "task_monitor", args |-> <<task_id, status>>,
                       result |-> LoadAndQuery(fs1.store, task_id, status)]
       /\ repeated' = (lastCall.op = "task_monitor"
                       /\ lastCall.args = <<task_id, status>>)
       /\ UNCHANGED <<lr, perms, br, storeBytes>>

\* task_log_reader(task_id, lines), lines 128-207
TaskLogReader(task_id, lines) ==
    LET exists == PathExists(fs.logs[task_id])
        logs1 == IF exists THEN fs.logs ELSE BootstrapLog(fs.logs, task_id)
    IN /\ fs' = [fs EXCEPT !.logs_dir = TRUE, !.logs = logs1]
       /\ lastCall' = [op |-> "task_log_reader", args |-> <<task_id, lines>>,
                       result |->
                           IF ~exists /\ task_id \notin DOMAIN sample_logs
                           THEN LogNotFound(task_id)
                           ELSE ReadLog(logs1[task_id], perms[task_id],
                                        task_id, lines)]
       /\ repeated' = (lastCall.op = "task_log_reader"
                       /\ lastCall.args = <<task_id, lines>>)
       /\ UNCHANGED <<storeWrites, lr, perms, br, storeBytes>>

Init == InitWith(FewFs)

Next ==
    \/ \E task_id \in TaskIdArgs, status \in StatusArgs : TaskMonitor(task_id, status)
    \/ \E task_id \in LogIds, lines \in FewLines : TaskLogReader(task_id, lines)

Spec == Init /\ [][Next]_vars

InitMonitor == InitWith(MonitorFs)
NextMonitor ==
    \E task_id \in TaskIdArgs, status \in StatusArgs : TaskMonitor(task_id, status)
SpecMonitor == InitMonitor /\ [][NextMonitor]_vars

InitReader == InitWith(ReaderFs)
NextReader ==
    \E task_id \in LogIds, lines \in LinesArgs : TaskLogReader(task_id, lines)
SpecReader == InitReader /\ [][NextReader]_vars

-----------------------------------------------------------------------------
\* Specification SpecLogRace: one task_log_reader call taken statement by
\* statement, while another actor deletes log files and changes their
\* permissions between the statements.

RaceLogs ==
    {l \in [LogIds -> {None, Some(<<"a", "\n">>)}] :
         l["task_002"] = None /\ l["task_003"] = None}

InitLogRace ==
    /\ fs \in {Fs(None, l) : l \in RaceLogs}
    /\ lastCall = NoCall
    /\ repeated = FALSE
    /\ storeWrites = 0
    /\ lr = LrIdle
    /\ perms = AllReadable
    /\ br = BrIdle
    /\ storeBytes = None

\* lines 139-145: the call starts; os.makedirs(logs_dir, exist_ok=True)
LR_Call(task_id, lines) ==
    /\ lr.pc = "idle"
    /\ lr' = [LrIdle EXCEPT !.pc = "check", !.task_id = task_id, !.lines = lines]
    /\ fs' = [fs EXCEPT !.logs_dir = TRUE]
    /\ UNCHANGED <<lastCall, repeated, storeWrites, perms, br, storeBytes>>

\* lines 148, 181, 184-185: the existence test and the branch on it
LR_Check ==
    /\ lr.pc = "check"
    /\ LET exists == PathExists(fs.logs[lr.task_id]) IN
       lr' = IF exists THEN [lr EXCEPT !.pc = "read", !.exists = TRUE]
             ELSE IF lr.task_id \in DOMAIN sample_logs
                  THEN [lr EXCEPT !.pc = "write"]
                  ELSE [lr EXCEPT !.pc = "done",
                                  !.result = LogNotFound(lr.task_id)]
    /\ UNCHANGED <<fs, lastCall, repeated, storeWrites, perms, br, storeBytes>>

\* lines 182-183: the transcript is written; a file made here is readable
LR_Write ==
    /\ lr.pc = "write"
    /\ fs' = [fs EXCEPT !.logs = BootstrapLog(fs.logs, lr.task_id)]
    /\ perms' = [perms EXCEPT ![lr.task_id] = TRUE]
    /\ lr' = [lr EXCEPT !.pc = "read"]
    /\ UNCHANGED <<lastCall, repeated, storeWrites, br, storeBytes>>

\* the exception open() raises on the file, "" when it raises none
OpenError(file, readable) ==
    IF file = << >> THEN "FileNotFoundError"
    ELSE IF ~readable THEN "PermissionError"
    ELSE ""

\* lines 188-207: the try block and its handler
LR_Read ==
    /\ lr.pc = "read"
    /\ lr' = [lr EXCEPT
                 !.pc = "done",
                 !.error = OpenError(fs.logs[lr.task_id], perms[lr.task_id]),
                 !.result = ReadLog(fs.logs[lr.task_id], perms[lr.task_id],
                                    lr.task_id, lr.lines)]
    /\ UNCHANGED <<fs, lastCall, repeated, storeWrites, perms, br, storeBytes>>

\* the call has returned (or raised); the next one may start
LR_Return ==
    /\ lr.pc = "done"
    /\ lr' = LrIdle
    /\ UNCHANGED <<fs, lastCall, repeated, storeWrites, perms, br, storeBytes>>

\* another actor removes a log file
EnvDelete(id) ==
    /\ fs.logs[id] # None
    /\ fs' = [fs EXCEPT !.logs[id] = None]
    /\ perms' = [perms EXCEPT ![id] = TRUE]
    /\ UNCHANGED <<lastCall, repeated, storeWrites, lr, br, storeBytes>>

\* another actor makes a log file unreadable, or readable again
EnvChmod(id) ==
    /\ fs.logs[id] # None
    /\ perms' = [perms EXCEPT ![id] = ~perms[id]]
    /\ UNCHANGED <<fs, lastCall, repeated, storeWrites, lr, br, storeBytes>>

NextLogRace ==
    \/ \E task_id \in LogIds, lines \in FewLines : LR_Call(task_id, lines)
    \/ LR_Check
    \/ LR_Write
    \/ LR_Read
    \/ LR_Return
    \/ \E id \in LogIds : EnvDelete(id)
    \/ \E id \in LogIds : EnvChmod(id)

SpecLogRace == InitLogRace /\ [][NextLogRace]_vars

-----------------------------------------------------------------------------
\* Specification SpecBootRace: two task_monitor calls start while the store
\* file is absent and run statement by statement in any interleaving.  The
\* store file is a sequence of chunks: the dump of sample_data is the chunks
\* 1 .. NChunks, written in that order from the writer's own file offset;
\* 0 is the filler a write past the end of the file leaves behind.

Procs == {1, 2}
SampleBytes == [i \in 1..NChunks |-> i]

\* json.load on the chunks: only the whole dump parses
BytesLoadOk(bytes) == bytes = SampleBytes
BytesLoad(bytes) == sample_data

\* mutant of WriteAt: the chunk goes to the end of the file (append mode)
WriteAtEnd(bytes, off, chunk) == Append(bytes, chunk)

\* write(chunk) at file offset off on a descriptor opened with mode 'w'
WriteAt(bytes, off, chunk) ==
    [i \in 1..Max(Len(bytes), off + 1) |->
        IF i = off + 1 THEN chunk
        ELSE IF i <= Len(bytes) THEN bytes[i]
        ELSE 0]

RaceTaskIds == {None, Some("task_002"), Some("task_009")}
RaceStatuses == {None, Some("failed")}

InitBootRace ==
    /\ fs = Fs(None, NoLogs)
    /\ lastCall = NoCall
    /\ repeated = FALSE
    /\ storeWrites = 0
    /\ lr = LrIdle
    /\ perms = AllReadable
    /\ br \in [Procs -> {[BrIdle[1] EXCEPT !.pc = "check", !.task_id = t,
                                           !.status = s] :
                             t \in RaceTaskIds, s \in RaceStatuses}]
    /\ storeBytes = None

\* line 28: the existence test
BR_Check(p) ==
    /\ br[p].pc = "check"
    /\ br' = [br EXCEPT ![p].pc = IF PathExists(storeBytes) THEN "read" ELSE "open"]
    /\ UNCHANGED <<fs, lastCall, repeated, storeWrites, lr, perms, storeBytes>>

\* lines 29, 78: makedirs, then open(data_file, 'w') creates or truncates
BR_Open(p) ==
    /\ br[p].pc = "open"
    /\ storeBytes' = Some(<< >>)
    /\ fs' = [fs EXCEPT !.assets_dir = TRUE]
    /\ storeWrites' = Min(storeWrites + 1, MaxWrites)
    /\ br' = [br EXCEPT ![p].pc = "write", ![p].off = 0, ![p].wrote = TRUE]
    /\ UNCHANGED <<lastCall, repeated, lr, perms>>

\* line 79 and the close of the with block: the next chunk of the dump
BR_Write(p) ==
    /\ br[p].pc = "write"
    /\ storeBytes' = Some(WriteAt(storeBytes[1], br[p].off,
                                  SampleBytes[br[p].off + 1]))
    /\ br' = [br EXCEPT ![p].off = @ + 1,
                        ![p].pc = IF br[p].off + 1 = NChunks THEN "read" ELSE "write"]
    /\ UNCHANGED <<fs, lastCall, repeated, storeWrites, lr, perms>>

\* lines 82-124: open for reading, parse, answer the query
BR_Read(p) ==
    /\ br[p].pc = "read"
    /\ br' = [br EXCEPT
                 ![p].pc = "done",
                 ![p].result =
                     IF BytesLoadOk(storeBytes[1])
                     THEN Query(GetTasks(BytesLoad(storeBytes[1])),
                                br[p].task_id, br[p].status)
                     ELSE Raise("JSONDecodeError")]
    /\ UNCHANGED <<fs, lastCall, repeated, storeWrites, lr, perms, storeBytes>>

NextBootRace ==
    \/ \E p \in Procs : BR_Check(p)
    \/ \E p \in Procs : BR_Open(p)
    \/ \E p \in Procs : BR_Write(p)
    \/ \E p \in Procs : BR_Read(p)

SpecBootRace == InitBootRace /\ [][NextBootRace]_vars

-----------------------------------------------------------------------------
\* Properties of the sequential specifications.  They are stated on the
\* state a call leaves behind: lastCall holds its arguments and result, fs
\* the files after it (the store a task_monitor call has queried is the
\* store it leaves behind).

IsMonitor == lastCall.op = "task_monitor"
IsReader  == lastCall.op = "task_log_reader"
StoreLoads == fs.store # None /\ fs.store[1].wellformed
StoredTasks ==
    IF "tasks" \in fs.store[1].obj.keys THEN fs.store[1].obj.tasks ELSE << >>
IdMatches(id) == {i \in 1..Len(StoredTasks) : StoredTasks[i].task_id = id}
StatusMatches(st) == {i \in 1..Len(StoredTasks) : StoredTasks[i].status = st}
Least(S) == CHOOSE i \in S : \A j \in S : i <= j

\* C1: with a non-empty task_id the result is decided by the id lookup
\* alone, whatever the status argument: success:true carrying the first
\* record in store order that has the id, or else success:false with no
\* task field; the call does not raise.
C1_LookupById ==
    (IsMonitor /\ StoreLoads /\ Truthy(lastCall.args[1])) =>
        LET id == lastCall.args[1][1]
            r == lastCall.result
        IN /\ r.kind = "json"
           /\ IF IdMatches(id) # {}
              THEN /\ r.success = TRUE
                   /\ "task" \in DOMAIN r
                   /\ r.task = StoredTasks[Least(IdMatches(id))]
              ELSE /\ r.success = FALSE
                   /\ "task" \notin DOMAIN r

\* a lookup of task_001, with a status filter given as well, in a store
\* that holds two different records with that id
C1_Witness ==
    /\ IsMonitor /\ StoreLoads
    /\ lastCall.args = <<Some("task_001"), Some("cancelled")>>
    /\ IdMatches("task_001") = {1, 2}
    /\ StoredTasks[1] # StoredTasks[2]
    /\ lastCall.result.task = StoredTasks[1]
    /\ lastCall.result.success = TRUE

\* C3: with no task_id and a non-empty status the result is success:true,
\* tasks are exactly the records whose status equals the filter character
\* for character, in store order, count is their number, and a filter that
\* matches nothing gives the empty list; on the sample, "failed" gives
\* exactly task_002.
C3_FilterByStatus ==
    (IsMonitor /\ StoreLoads /\ ~Truthy(lastCall.args[1])
               /\ Truthy(lastCall.args[2])) =>
        LET st == lastCall.args[2][1]
            r == lastCall.result
        IN /\ r.kind = "json" /\ r.success = TRUE
           /\ r.tasks = SelectSeq(StoredTasks, LAMBDA t : t.status = st)
           /\ r.count = Cardinality(StatusMatches(st))
           /\ (StatusMatches(st) = {} => r.tasks = << >> /\ r.count = 0)
           /\ (StoredTasks = sample_tasks /\ st = "failed" =>
                   r.tasks = <<sample_tasks[2]>> /\ r.count = 1)

\* the filter "failed" on a store that holds a record of status "FAILED"
\* and one of status "failed": only the latter is returned
C3_Witness ==
    /\ IsMonitor /\ StoreLoads
    /\ lastCall.args = <<None, Some("failed")>>
    /\ StatusMatches("FAILED") # {}
    /\ lastCall.result.count = 1

YieldsNothing ==
    \/ Truthy(lastCall.args[1]) /\ IdMatches(lastCall.args[1][1]) = {}
    \/ /\ ~Truthy(lastCall.args[1]) /\ Truthy(lastCall.args[2])
       /\ StatusMatches(lastCall.args[2][1]) = {}

\* C4 as stated: a query that yields nothing, by id or by status, is
\* answered with success:false.
C4_NothingIsFailure ==
    (IsMonitor /\ StoreLoads /\ YieldsNothing) =>
        (lastCall.result.kind = "json" /\ lastCall.result.success = FALSE)

\* C4 amended: a query that yields nothing never raises; by id it is
\* answered with success:false, by status with success:true, an empty list
\* and count 0.
C4_NothingIsReported ==
    (IsMonitor /\ StoreLoads /\ YieldsNothing) =>
        LET r == lastCall.result IN
        /\ r.kind = "json"
        /\ IF Truthy(lastCall.args[1])
           THEN r.success = FALSE
           ELSE r.success = TRUE /\ r.tasks = << >> /\ r.count = 0

\* a status filter that matches no record of a non-empty store
C4_Witness ==
    /\ IsMonitor /\ StoreLoads /\ YieldsNothing
    /\ lastCall.args = <<Some(""), Some("cancelled")>>
    /\ StoredTasks # << >>

\* C5: with neither argument the result holds every record in store order,
\* count and summary.total are the number of records and each per-status
\* entry of the summary is the number of records of that status; on the
\* sample the summary is 4 / 1 / 1 / 1 / 1.
C5_ListAll ==
    (IsMonitor /\ StoreLoads /\ ~Truthy(lastCall.args[1])
               /\ ~Truthy(lastCall.args[2])) =>
        LET r == lastCall.result IN
        /\ r.kind = "json" /\ r.success = TRUE
        /\ r.tasks = StoredTasks
        /\ r.count = Len(StoredTasks)
        /\ r.summary.total = Len(StoredTasks)
        /\ \A st \in {"success", "failed", "running", "pending"} :
               r.summary[st] = Cardinality(StatusMatches(st))
        /\ (StoredTasks = sample_tasks =>
               r.summary = [total |-> 4, success |-> 1, failed |-> 1,
                            running |-> 1, pending |-> 1])

\* the listing of the store bootstrapped by the call itself
C5_Witness ==
    /\ IsMonitor /\ storeWrites = 1
    /\ lastCall.args = <<None, None>>
    /\ lastCall.result.summary.total = 4
    /\ lastCall.result.summary.failed = 1

LogFile == fs.logs[lastCall.args[1]]
LogLines == ReadLines(LogFile[1])

\* C2 as stated: for an existing log file of T lines and lines >= 0 the
\* reader returns the last `lines` lines in file order when lines < T (none
\* for lines = 0; the last 3 of the 10 of the task_001 transcript for
\* lines = 3), all T lines when lines >= T, and log_lines is the number of
\* lines of log_content.
C2_LastLines ==
    (IsReader /\ LogFile # None /\ lastCall.args[2] >= 0) =>
        LET n == lastCall.args[2]
            T == Len(LogLines)
            r == lastCall.result
        IN /\ r.kind = "json" /\ r.success = TRUE
           /\ r.log_content = Join(SubSeq(LogLines, T - Min(n, T) + 1, T))
           /\ r.log_lines = Min(n, T)
           /\ r.log_lines = Len(ReadLines(r.log_content))
           /\ (LogFile[1] = sample_logs["task_001"] /\ n = 3 =>
                   r.log_content = Join(<<LogLines[8], LogLines[9], LogLines[10]>>))

\* C6: a call that repeats the call before it (same operation, same
\* arguments) leaves every file as the first call left it and returns what
\* the first call returned, whatever the files were before the first call.
C6_Idempotent ==
    [][(lastCall'.op = lastCall.op /\ lastCall'.args = lastCall.args) =>
           (fs' = fs /\ lastCall'.result = lastCall.result)]_vars

\* task_monitor called twice on an absent store: the first call wrote it
C6_Witness ==
    /\ repeated /\ IsMonitor /\ storeWrites = 1
    /\ lastCall.result.kind = "json"

\* C7: a task_monitor call made while the store file exists changes no
\* file; the store is written at most once, and once it exists its content
\* never changes.
C7_MonitorFrame ==
    [][/\ (lastCall'.op = "task_monitor" /\ fs.store # None) => fs' = fs
       /\ fs.store # None => fs'.store = fs.store
       /\ storeWrites' <= 1]_vars

\* a repeated task_monitor call on a store that was there from the start
\* and is not the sample dataset
C7_Witness ==
    /\ repeated /\ IsMonitor /\ storeWrites = 0
    /\ StoreLoads /\ StoredTasks = <<sample_tasks[2]>>

\* C9: a task_log_reader call on an id with no log file returns the bare
\* not-found string and creates no file when the id is none of the three
\* sample ids, and writes the id's transcript and returns a success
\* envelope when it is one of them.
C9_AbsentLog ==
    [][(lastCall'.op = "task_log_reader" /\ fs.logs[lastCall'.args[1]] = None) =>
           LET id == lastCall'.args[1]
               r == lastCall'.result
           IN IF id \in {"task_001", "task_002", "task_003"}
              THEN /\ fs'.logs = [fs.logs EXCEPT ![id] = Some(sample_logs[id])]
                   /\ r.kind = "json" /\ r.success = TRUE
              ELSE /\ fs'.logs = fs.logs
                   /\ r.kind = "str"
                   /\ DOMAIN r = {"kind", "text"}]_vars

\* the log of the unknown id task_009 was asked for and there is still no
\* file for it, while the transcript of a sample id has been written
C9_Witness ==
    /\ IsReader /\ lastCall.args[1] = "task_009"
    /\ lastCall.result.kind = "str"
    /\ fs.logs["task_009"] = None
    /\ fs.logs["task_002"] = Some(sample_logs["task_002"])

\* C8: a failure of the read of the log file (the file deleted after the
\* existence test, or unreadable) ends the call with a JSON envelope that
\* holds success:false and a message; the call does not raise.
C8_ReadFailureReported ==
    (lr.pc = "done" /\ lr.error # "") =>
        /\ lr.result.kind = "json"
        /\ lr.result.success = FALSE
        /\ "message" \in DOMAIN lr.result

\* the existence test found the file and the open did not
C8_Witness ==
    /\ lr.pc = "done" /\ lr.exists
    /\ lr.error = "FileNotFoundError"
    /\ lr.result.kind = "json"

AloneResult(p) == Query(sample_tasks, br[p].task_id, br[p].status)
AllDone == \A p \in Procs : br[p].pc = "done"

\* C10 as stated: whatever the interleaving, each of the two calls returns
\* what it returns when it runs alone on the sample dataset (none fails on
\* an empty or partly written file), and when both are done the store file
\* holds exactly the sample dataset.
C10_RaceHarmless ==
    /\ \A p \in Procs : br[p].pc = "done" => br[p].result = AloneResult(p)
    /\ AllDone => storeBytes = Some(SampleBytes)

\* C10 amended: a call either returns what it returns when it runs alone
\* on the sample dataset or fails with a parse error on an empty or partly
\* written file; when both are done the store file holds exactly the
\* sample dataset.
C10_RaceOutcome ==
    /\ \A p \in Procs : br[p].pc = "done" =>
           \/ br[p].result = AloneResult(p)
           \/ br[p].result = [kind |-> "exception", type |-> "JSONDecodeError"]
    /\ AllDone => storeBytes = Some(SampleBytes)

\* both calls are done, both wrote the store, one of them failed
C10_Witness ==
    /\ AllDone
    /\ br[1].wrote /\ br[2].wrote
    /\ br[1].result.kind = "exception"
    /\ br[2].result.kind = "json"

====
